---- MODULE Spec2Model ----
(***************************************************************************)
(* VaLog static blog generator (src/VaLog.py).                             *)
(*                                                                         *)
(* Text is modelled as a sequence of one-character strings, so that the    *)
(* regular expressions of the source are evaluated character by character. *)
(* A generator run is modelled as a state machine over the steps of        *)
(* main() / VaLogGenerator.run().                                          *)
(***************************************************************************)
EXTENDS Integers, Sequences, FiniteSets, TLC

VARIABLES
    content,      \* text functions: the body handed to the function
    call,         \* text functions: which function has been applied
    out,          \* text functions: its result
    pc,           \* position of the run in main() / run()
    runNo,        \* ordinal of the current run of the program
    configFile,   \* parsed content of config.yml
    env,          \* what exists around the program: templates, jinja2
    source,       \* the issue list the issue source returns
    config,       \* self.config
    issues,       \* self.issues
    articles,     \* self.articles
    base_data,    \* self.base_data
    fetched,      \* number of fetch_github_issues calls of this run
    written,      \* files written by this run
    files,        \* files on disk
    lastRun       \* history: what the previous run fetched and rendered

textVars == <<content, call, out>>
runVars == <<pc, runNo, configFile, env, source, config, issues, articles,
             base_data, fetched, written, files, lastRun>>
vars == <<content, call, out, pc, runNo, configFile, env, source, config,
          issues, articles, base_data, fetched, written, files, lastRun>>

-----------------------------------------------------------------------------
(* Bounds *)

MaxPieces == 4     \* a body is a concatenation of at most MaxPieces lexemes
MaxIssues == 2     \* the issue source returns at most MaxIssues records

-----------------------------------------------------------------------------
(* Characters and text helpers *)

Min(S) == CHOOSE x \in S : \A y \in S : x <= y

NL == "\n"
Whitespace == {" ", "\t", "\n", "\r"}

VML == <<"!", "v", "m", "l", "-">>
SpanOpenHead == <<"<", "s", "p", "a", "n">>
SpanClose == <<"<", "/", "s", "p", "a", "n", ">">>

\* p occurs in s at position i
HasAt(s, i, p) ==
    /\ i >= 1
    /\ i + Len(p) - 1 <= Len(s)
    /\ SubSeq(s, i, i + Len(p) - 1) = p

\* least position >= i where p occurs in s, 0 when there is none
IndexFrom(s, i, p) ==
    LET c == {j \in i..Len(s) : HasAt(s, j, p)}
    IN  IF c = {} THEN 0 ELSE Min(c)

Contains(s, p) == IndexFrom(s, 1, p) # 0

\* position of the last character of the line that holds position i
\* (i - 1 when the line is empty at i)
LineEnd(s, i) ==
    LET n == {j \in i..Len(s) : s[j] = NL}
    IN  IF n = {} THEN Len(s) ELSE Min(n) - 1

\* str.strip()
Strip(s) ==
    LET keep == {j \in 1..Len(s) : s[j] \notin Whitespace}
    IN  IF keep = {} THEN <<>>
        ELSE SubSeq(s, Min(keep), CHOOSE j \in keep : \A k \in keep : k <= j)

\* str.split(sep) for a non-empty separator
RECURSIVE SplitFrom(_, _, _)
SplitFrom(s, i, sep) ==
    LET j == IndexFrom(s, i, sep)
    IN  IF j = 0 THEN <<SubSeq(s, i, Len(s))>>
        ELSE <<SubSeq(s, i, j - 1)>> \o SplitFrom(s, j + Len(sep), sep)

Split(s, sep) == SplitFrom(s, 1, sep)

\* re.search(r'<span[^>]*>(.*?)</span>', s): the match record of the leftmost
\* match; start/stop delimit the whole match, inner is group(1)
SpanMatchAt(s, i) ==
    LET gt == IndexFrom(s, i + Len(SpanOpenHead), <<">">>)
        cl == IF gt = 0 THEN 0 ELSE IndexFrom(s, gt + 1, SpanClose)
    IN  IF /\ HasAt(s, i, SpanOpenHead)
           /\ gt # 0
           /\ cl # 0
           /\ \A k \in (gt + 1)..(cl - 1) : s[k] # NL
        THEN [found |-> TRUE, start |-> i, stop |-> cl + Len(SpanClose) - 1,
              inner |-> SubSeq(s, gt + 1, cl - 1)]
        ELSE [found |-> FALSE, start |-> 0, stop |-> 0, inner |-> <<>>]

SearchSpan(s) ==
    LET c == {i \in 1..Len(s) : SpanMatchAt(s, i).found}
    IN  IF c = {} THEN [found |-> FALSE, start |-> 0, stop |-> 0, inner |-> <<>>]
        ELSE SpanMatchAt(s, Min(c))

-----------------------------------------------------------------------------
(* VaLogGenerator: the text functions *)

\* the pattern r'!vml-(.+)' matches at i: the prefix and at least one
\* character that is not a newline
VmlMatchesAt(s, i) ==
    /\ HasAt(s, i, VML)
    /\ i + Len(VML) <= Len(s)
    /\ s[i + Len(VML)] # NL

\* process_html_inline: re.sub(r'!vml-(.+?)(?=\n|$)', group(1), content)
RECURSIVE InlineFrom(_, _)
InlineFrom(s, i) ==
    IF i > Len(s) THEN <<>>
    ELSE IF VmlMatchesAt(s, i)
         THEN LET e == LineEnd(s, i + Len(VML))
              IN  SubSeq(s, i + Len(VML), e) \o InlineFrom(s, e + 1)
         ELSE <<s[i]>> \o InlineFrom(s, i + 1)

process_html_inline(s) == InlineFrom(s, 1)

\* extract_summary
extract_summary(s) ==
    LET c == {i \in 1..Len(s) : VmlMatchesAt(s, i)}
    IN  IF c = {} THEN <<>>
        ELSE LET i == Min(c)
                 vml_line == SubSeq(s, i + Len(VML), LineEnd(s, i + Len(VML)))
                 span_match == SearchSpan(vml_line)
             IN  IF span_match.found THEN Strip(span_match.inner) ELSE <<>>

\* re.sub(r'!vml-<span[^>]*>.*?</span>\s*\n?', '', s, count=1)
SummaryLineAt(s, i) ==
    LET m == SpanMatchAt(s, i + Len(VML))
        ws == {j \in (m.stop + 1)..Len(s) :
                 \A k \in (m.stop + 1)..j : s[k] \in Whitespace}
    IN  IF HasAt(s, i, VML) /\ m.found
        THEN [found |-> TRUE, start |-> i,
              stop |-> IF ws = {} THEN m.stop
                       ELSE CHOOSE j \in ws : \A k \in ws : k <= j]
        ELSE [found |-> FALSE, start |-> 0, stop |-> 0]

RemoveSummaryLine(s) ==
    LET c == {i \in 1..Len(s) : SummaryLineAt(s, i).found}
    IN  IF c = {} THEN s
        ELSE LET m == SummaryLineAt(s, Min(c))
             IN  SubSeq(s, 1, m.start - 1) \o SubSeq(s, m.stop + 1, Len(s))

\* process_issue_content
process_issue_content(s) ==
    [content |-> RemoveSummaryLine(process_html_inline(s)),
     summary |-> extract_summary(s)]

-----------------------------------------------------------------------------
(* Bodies handed to the text functions *)

SpanOpen == <<"<", "s", "p", "a", "n", ">">>
SummarySpan == SpanOpen \o <<" ", "H", "i", " ">> \o SpanClose

Pieces == {VML, SpanOpen, SpanClose, SummarySpan, <<NL>>, <<"a">>}

RECURSIVE Concat(_)
Concat(ps) == IF ps = <<>> THEN <<>> ELSE Head(ps) \o Concat(Tail(ps))

Bodies == {Concat(ps) : ps \in UNION {[1..n -> Pieces] : n \in 0..MaxPieces}}

-----------------------------------------------------------------------------
(* The text functions applied to one body *)

NoResult == [text |-> <<>>, summary |-> <<>>]

CallExtractSummary ==
    /\ call = "none"
    /\ call' = "extract_summary"
    /\ out' = [text |-> <<>>, summary |-> extract_summary(content)]
    /\ UNCHANGED <<content, runVars>>

CallProcessHtmlInline ==
    /\ call = "none"
    /\ call' = "process_html_inline"
    /\ out' = [text |-> process_html_inline(content), summary |-> <<>>]
    /\ UNCHANGED <<content, runVars>>

CallProcessIssueContent ==
    /\ call = "none"
    /\ call' = "process_issue_content"
    /\ out' = [text |-> process_issue_content(content).content,
               summary |-> process_issue_content(content).summary]
    /\ UNCHANGED <<content, runVars>>

-----------------------------------------------------------------------------
(* Dictionaries: a dict is a function on its keys *)

EmptyDict == <<>>

\* dict.get(k, default)
Get(d, k, default) == IF k \in DOMAIN d THEN d[k] ELSE default

\* x in list
InList(x, list) == \E k \in 1..Len(list) : list[k] = x

\* a str value, and None where a str is expected
Str(s) == [null |-> FALSE, text |-> s]
NoneStr == [null |-> TRUE, text |-> <<>>]

\* the url None of a menu item
None == <<>>

-----------------------------------------------------------------------------
(* config.yml *)

MaxMenu == 10

HexDigits == {"0", "1", "2", "3", "4", "5", "6", "7", "8", "9",
              "a", "b", "c", "d", "e", "f", "A", "B", "C", "D", "E", "F"}

Red == <<"#", "e", "7", "4", "c", "3", "c">>

Blog == [avatar |-> "static/avatar.png", name |-> "VaLog",
         description |-> "blog", favicon |-> "favicon.ico"]

\* floating_menu entries: tag and display are both optional keys
MenuT1 == [tag |-> "t1", display |-> "T1"]
MenuTop == [tag |-> "top"]
MenuNone == [tag |-> "zz", display |-> "Z"]
MenuBare == [display |-> "bare"]

Menus == {<<>>, <<MenuT1>>, <<MenuTop, MenuNone, MenuBare>>}

\* special.view: the items of the mapping, in file order
ViewDays == <<<<"Total_time", "2023.01.01">>, <<"Others", "hello">>>>
ViewLinks == <<<<"Total_time", "soon">>,
               <<"RF_Information", "VaLog">>, <<"RF_Link", "https://r">>,
               <<"Copyright", "(c)">>, <<"C_Link", "https://c">>>>

Specials == {[top |-> FALSE], [top |-> TRUE], [view |-> ViewDays],
             [top |-> TRUE, view |-> ViewLinks]}

DefaultTheme == [mode |-> "dark", primary_color |-> Red]

DefaultConfig ==
    [exists |-> TRUE, blog |-> Blog, theme |-> DefaultTheme,
     floating_menu |-> <<MenuT1>>, special |-> [top |-> FALSE]]

\* configurations that differ in what generate_base_yaml reads
ConfigsBase ==
    {[DefaultConfig EXCEPT !.floating_menu = m, !.special = sp] :
        m \in Menus, sp \in Specials}
    \cup {[exists |-> TRUE, blog |-> Blog, theme |-> DefaultTheme]}

\* configurations that differ in what validate_config reads
Themes ==
    {[mode |-> "light", primary_color |-> <<"#", "E", "7", "4", "C", "3", "C">>],
     [primary_color |-> Red],
     [mode |-> "blue", primary_color |-> Red],
     [mode |-> "dark", primary_color |-> SubSeq(Red, 1, 6)],
     [mode |-> "dark", primary_color |-> Tail(Red)],
     [mode |-> "dark", primary_color |-> <<"#", "e", "7", "4", "c", "3", "g">>],
     [mode |-> "dark", primary_color |-> Red \o <<"c">>],
     [mode |-> "dark", primary_color |-> Red \o <<NL>>]}

ConfigsValidation ==
    {[DefaultConfig EXCEPT !.theme = t] : t \in Themes}
    \cup {[DefaultConfig EXCEPT !.floating_menu = [i \in 1..n |-> MenuT1]] :
            n \in {MaxMenu, MaxMenu + 1}}

NoConfigFile == [exists |-> FALSE]

ConfigFiles == ConfigsBase \cup ConfigsValidation \cup {NoConfigFile}

\* color_pattern.match(s) for r'^#[0-9a-fA-F]{6}$': in Python, $ also matches
\* just before a newline that ends the string
ColorPatternMatches(s) ==
    /\ Len(s) >= 7
    /\ s[1] = "#"
    /\ \A i \in 2..7 : s[i] \in HexDigits
    /\ \/ Len(s) = 7
       \/ Len(s) = 8 /\ s[8] = NL

\* validate_config: the list of errors
validate_config(cfg) ==
    LET floating_menu == Get(cfg, "floating_menu", <<>>)
        theme_mode == Get(Get(cfg, "theme", EmptyDict), "mode", "dark")
        primary_color == Get(Get(cfg, "theme", EmptyDict), "primary_color", Red)
    IN  (IF Len(floating_menu) > MaxMenu THEN <<"floating_menu">> ELSE <<>>)
        \o (IF theme_mode \notin {"dark", "light"} THEN <<"theme.mode">> ELSE <<>>)
        \o (IF ~ColorPatternMatches(primary_color) THEN <<"primary_color">> ELSE <<>>)

\* load_config: TRUE when it returns the configuration, FALSE when it ends
\* the process with sys.exit(1)
load_config_returns(file) ==
    /\ file.exists
    /\ validate_config(file) = <<>>

-----------------------------------------------------------------------------
(* The issue source *)

CreatedAt == <<"2", "0", "2", "3", "-", "1", "0", "-", "0", "1",
               "T", "1", "0", ":", "0", "0", ":", "0", "0", "Z">>
DateLen == 10

BodySummary == VML \o SummarySpan \o <<NL, NL, "a">>
BodyPlain == <<"a", NL, NL, " ", "b", " ", NL, NL, NL, NL, "c", NL, NL, "d">>

\* what the records of the issue source look like, number and updated_at apart
IssueKinds ==
    {[title |-> "intro", created_at |-> CreatedAt,
      labels |-> <<"t1">>, body |-> Str(BodySummary)],
     [title |-> "a pull request", created_at |-> CreatedAt,
      labels |-> <<"t1">>, body |-> Str(BodyPlain), pull_request |-> TRUE],
     [title |-> "no description", created_at |-> CreatedAt,
      labels |-> <<"special", "t1">>, body |-> NoneStr],
     [title |-> "pinned", created_at |-> CreatedAt,
      labels |-> <<"top", "t1">>],
     [title |-> "about", created_at |-> CreatedAt,
      labels |-> <<"special">>, body |-> Str(BodyPlain)],
     [title |-> "draft", created_at |-> CreatedAt, body |-> Str(<<>>)]}

\* the lists the source returns: newest first, numbers distinct
Sources ==
    UNION {{[i \in 1..n |-> ks[i] @@ [number |-> n + 1 - i, updated_at |-> "m0"]] :
              ks \in [1..n -> IssueKinds]} : n \in 0..MaxIssues}

Envs == [home_template : BOOLEAN, article_template : BOOLEAN, jinja2 : BOOLEAN]
DefaultEnv == [home_template |-> TRUE, article_template |-> TRUE, jinja2 |-> TRUE]

\* fetch_github_issues: the list obtained from the API or, failing that, the
\* mock list; either way one of the lists of Sources
fetch_github_issues(src) == src

-----------------------------------------------------------------------------
(* process_issues *)

\* markdown.markdown(content, ...): an external converter, left uninterpreted
Markdown(s) == [markdown |-> s]

DefaultGradient == <<"#e74c3c", "#c0392b">>

OMD(n) == <<"O-MD", n>>
ArticlePage(n) == <<"docs/article", n>>
BaseYaml == <<"base.yaml", 0>>
HomePage == <<"docs/index.html", 0>>
StaticDir == <<"docs/static", 0>>

\* the article built from one issue whose body is a str
MakeArticle(issue, raw) ==
    LET labels == Get(issue, "labels", <<>>)
        r == process_issue_content(raw)
    IN  [id |-> <<"article", issue.number>>,
         issue_id |-> issue.number,
         title |-> issue.title,
         tags |-> labels,
         verticalTitle |-> IF labels # <<>> THEN labels[1] ELSE "文章",
         date |-> SubSeq(issue.created_at, 1, DateLen),
         summary |-> r.summary,
         content |-> Markdown(r.content),
         raw_content |-> r.content,
         url |-> <<"/article/", issue.number>>,
         gradient |-> DefaultGradient]

\* a record the loop skips
IsPullRequest(issue) == "pull_request" \in DOMAIN issue

\* the loop of process_issues from position i on; acc holds self.articles, the
\* O-MD files written so far, and whether an exception has left the loop.
\* A body that is None makes re.search raise TypeError in extract_summary.
RECURSIVE ProcessFrom(_, _, _)
ProcessFrom(iss, i, acc) ==
    IF i > Len(iss) THEN acc
    ELSE IF IsPullRequest(iss[i]) THEN ProcessFrom(iss, i + 1, acc)
    ELSE LET raw_content == Get(iss[i], "body", Str(<<>>))
         IN  IF raw_content.null THEN [acc EXCEPT !.raised = TRUE]
             ELSE ProcessFrom(iss, i + 1,
                     [acc EXCEPT
                        !.articles = Append(@, MakeArticle(iss[i], raw_content.text)),
                        !.written = @ \cup {OMD(iss[i].number)}])

-----------------------------------------------------------------------------
(* generate_base_yaml *)

PreviewLimit == 3

\* [x for x in list if x != ""]
RECURSIVE NonEmpty(_)
NonEmpty(list) ==
    IF list = <<>> THEN <<>>
    ELSE IF Head(list) = <<>> THEN NonEmpty(Tail(list))
         ELSE <<Head(list)>> \o NonEmpty(Tail(list))

\* the preview paragraphs of an article
Paragraphs(raw_content) ==
    IF raw_content = <<>> THEN <<>>
    ELSE LET raw_paragraphs == Split(raw_content, <<NL, NL>>)
             stripped == [k \in 1..Len(raw_paragraphs) |-> Strip(raw_paragraphs[k])]
             paragraphs == NonEmpty(stripped)
         IN  IF Len(paragraphs) > PreviewLimit
             THEN SubSeq(paragraphs, 1, PreviewLimit)
             ELSE paragraphs

ArticleData(article) ==
    [id |-> article.id,
     title |-> article.title,
     tags |-> article.tags,
     verticalTitle |-> article.verticalTitle,
     date |-> article.date,
     content |-> Paragraphs(article.raw_content),
     url |-> article.url,
     gradient |-> article.gradient]

\* a plausible variant: articles shown as special cards are left out
ArticlesDataWithoutSpecials(arts) ==
    LET keep == {k \in 1..Len(arts) : ~InList("special", arts[k].tags)}
        RECURSIVE Pick(_)
        Pick(k) == IF k > Len(arts) THEN <<>>
                   ELSE (IF k \in keep THEN <<ArticleData(arts[k])>> ELSE <<>>)
                        \o Pick(k + 1)
    IN  Pick(1)

\* articles_data: one entry per article of self.articles
ArticlesData(arts) == [k \in 1..Len(arts) |-> ArticleData(arts[k])]

NoSummaryText == <<"暂", "无", "简", "介">>

SpecialData(article) ==
    [id |-> <<"special", article.issue_id>>,
     title |-> article.title,
     tags |-> article.tags,
     content |-> IF article.summary # <<>> THEN <<article.summary>>
                 ELSE <<NoSummaryText>>,
     url |-> article.url,
     gradient |-> article.gradient]

\* the test of the loop that fills specials_data
GoesToSpecial(article, special_config) ==
    IF Get(special_config, "top", FALSE)
    THEN InList("top", article.tags) \/ InList("special", article.tags)
    ELSE InList("special", article.tags)

RECURSIVE SpecialArticles(_, _)
SpecialArticles(arts, special_config) ==
    IF arts = <<>> THEN <<>>
    ELSE (IF GoesToSpecial(Head(arts), special_config)
          THEN <<SpecialData(Head(arts))>> ELSE <<>>)
         \o SpecialArticles(Tail(arts), special_config)

\* value of key k in the items of a mapping
Lookup(items, k) == (CHOOSE it \in {items[j] : j \in 1..Len(items)} : it[1] = k)[2]

\* datetime.strptime(value, "%Y.%m.%d") succeeds
ParsesAsDate(value) == value \in {"2023.01.01"}

\* view_content: the lines of the text-only card
RECURSIVE ViewContent(_, _)
ViewContent(items, view) ==
    IF items = <<>> THEN <<>>
    ELSE LET key == Head(items)[1]
             value == Head(items)[2]
             line ==
                IF key = "Total_time"
                THEN (IF ParsesAsDate(value) THEN <<<<"days since", value>>>>
                      ELSE <<<<"text", value>>>>)
                ELSE IF key = "RF_Link"
                THEN <<<<"a", value, Lookup(view, "RF_Information")>>>>
                ELSE IF key = "C_Link"
                THEN <<<<"a", value, Lookup(view, "Copyright")>>>>
                ELSE IF key \notin {"RF_Information", "Copyright"}
                THEN <<<<"text", value>>>>
                ELSE <<>>
         IN  line \o ViewContent(Tail(items), view)

TextOnly(view) == [id |-> <<"special-text-only">>, content |-> ViewContent(view, view)]

\* a plausible variant: the text-only card is added whenever special.view exists
SpecialsDataAlwaysView(arts, special_config) ==
    SpecialArticles(arts, special_config)
    \o (IF "view" \in DOMAIN special_config
        THEN <<TextOnly(special_config.view)>> ELSE <<>>)

\* specials_data
SpecialsData(arts, special_config) ==
    LET specials_data == SpecialArticles(arts, special_config)
    IN  IF specials_data = <<>> /\ "view" \in DOMAIN special_config
        THEN <<TextOnly(special_config.view)>>
        ELSE specials_data

\* a plausible variant: the loop has no break, so the last match wins
RECURSIVE MenuUrlLast(_, _)
MenuUrlLast(tag, arts) ==
    IF arts = <<>> THEN None
    ELSE IF InList(tag, arts[Len(arts)].tags) THEN arts[Len(arts)].url
         ELSE MenuUrlLast(tag, SubSeq(arts, 1, Len(arts) - 1))

\* the inner loop that resolves a menu entry: url of the first article that
\* carries the tag, None when the loop ends without a match
RECURSIVE MenuUrl(_, _)
MenuUrl(tag, arts) ==
    IF arts = <<>> THEN None
    ELSE IF InList(tag, Head(arts).tags) THEN Head(arts).url
         ELSE MenuUrl(tag, Tail(arts))

MenuItemData(menu_item, arts) ==
    LET tag == Get(menu_item, "tag", "")
    IN  [tag |-> tag, display |-> Get(menu_item, "display", tag),
         url |-> MenuUrl(tag, arts)]

MenuItemsData(floating_menu, arts) ==
    [k \in 1..Len(floating_menu) |-> MenuItemData(floating_menu[k], arts)]

BaseData(cfg, arts) ==
    [blog |-> [avatar |-> cfg.blog.avatar, name |-> cfg.blog.name,
               description |-> cfg.blog.description, favicon |-> cfg.blog.favicon],
     articles |-> ArticlesData(arts),
     specials |-> SpecialsData(arts, Get(cfg, "special", EmptyDict)),
     menu_items |-> MenuItemsData(Get(cfg, "floating_menu", <<>>), arts)]

-----------------------------------------------------------------------------
(* generate_article_pages *)

\* a plausible variant: only pages whose marker changed since the pages of
\* the previous run were written are rendered again
PagesToRenderChanged(arts, iss, last) ==
    {a.issue_id : a \in
        {arts[k] : k \in {j \in 1..Len(arts) :
            \/ arts[j].issue_id \notin DOMAIN last.cache
            \/ \E i \in 1..Len(iss) :
                /\ iss[i].number = arts[j].issue_id
                /\ iss[i].updated_at # last.cache[arts[j].issue_id]}}}

\* the loop over self.articles, in generate_article_pages and in
\* generate_article_pages_simple alike: every article is rendered
PagesToRender(arts, iss, last) == {arts[k].issue_id : k \in 1..Len(arts)}

\* the files generate_article_pages_simple writes: the fallback without Jinja2
generate_article_pages_simple(e, arts, iss, last) ==
    IF ~e.article_template THEN {}
    ELSE {ArticlePage(n) : n \in PagesToRender(arts, iss, last)}

\* the files generate_article_pages writes
generate_article_pages(e, arts, iss, last) ==
    IF ~e.article_template THEN {}
    ELSE IF ~e.jinja2 THEN generate_article_pages_simple(e, arts, iss, last)
    ELSE {ArticlePage(n) : n \in PagesToRender(arts, iss, last)}

-----------------------------------------------------------------------------
(* main() and run() *)

NoLastRun == [cache |-> EmptyDict]

TextIdle ==
    /\ content = <<>>
    /\ call = "idle"
    /\ out = NoResult

\* a process starts: main() is about to construct the generator
Init ==
    /\ TextIdle
    /\ pc = "main"
    /\ runNo = 1
    /\ configFile \in ConfigFiles
    /\ env \in Envs
    /\ configFile = DefaultConfig \/ env = DefaultEnv
    /\ source \in Sources
    /\ config = EmptyDict
    /\ issues = <<>>
    /\ articles = <<>>
    /\ base_data = EmptyDict
    /\ fetched = 0
    /\ written = {}
    /\ files = {}
    /\ lastRun = NoLastRun

\* VaLogGenerator("config.yml"): __init__ and load_config
Construct ==
    /\ pc = "main"
    /\ IF load_config_returns(configFile)
       THEN /\ config' = configFile
            /\ pc' = "run"
       ELSE /\ config' = config
            /\ pc' = "exit"
    /\ issues' = <<>>
    /\ articles' = <<>>
    /\ base_data' = EmptyDict
    /\ UNCHANGED <<textVars, runNo, configFile, env, source, fetched, written,
                   files, lastRun>>

\* process_issues
ProcessIssues ==
    /\ pc = "run"
    /\ LET fetchedIssues == fetch_github_issues(source)
           r == ProcessFrom(fetchedIssues, 1,
                            [articles |-> articles, written |-> {}, raised |-> FALSE])
       IN  /\ issues' = fetchedIssues
           /\ articles' = r.articles
           /\ written' = written \cup r.written
           /\ files' = files \cup r.written
           /\ pc' = IF r.raised THEN "raised" ELSE "generate_base_yaml"
    /\ fetched' = fetched + 1
    /\ UNCHANGED <<textVars, runNo, configFile, env, source, config, base_data,
                   lastRun>>

\* generate_base_yaml
GenerateBaseYaml ==
    /\ pc = "generate_base_yaml"
    /\ base_data' = BaseData(config, articles)
    /\ written' = written \cup {BaseYaml}
    /\ files' = files \cup {BaseYaml}
    /\ pc' = "generate_home_page"
    /\ UNCHANGED <<textVars, runNo, configFile, env, source, config, issues,
                   articles, fetched, lastRun>>

\* generate_home_page
GenerateHomePage ==
    /\ pc = "generate_home_page"
    /\ LET w == IF env.home_template THEN {HomePage} ELSE {}
       IN  /\ written' = written \cup w
           /\ files' = files \cup w
    /\ pc' = "generate_article_pages"
    /\ UNCHANGED <<textVars, runNo, configFile, env, source, config, issues,
                   articles, base_data, fetched, lastRun>>

\* generate_article_pages
GenerateArticlePages ==
    /\ pc = "generate_article_pages"
    /\ LET w == generate_article_pages(env, articles, issues, lastRun)
       IN  /\ written' = written \cup w
           /\ files' = files \cup w
    /\ pc' = "copy_static_resources"
    /\ UNCHANGED <<textVars, runNo, configFile, env, source, config, issues,
                   articles, base_data, fetched, lastRun>>

\* copy_static_resources: docs/static exists afterwards, copied or created
CopyStaticResources ==
    /\ pc = "copy_static_resources"
    /\ written' = written \cup {StaticDir}
    /\ files' = files \cup {StaticDir}
    /\ pc' = "done"
    /\ UNCHANGED <<textVars, runNo, configFile, env, source, config, issues,
                   articles, base_data, fetched, lastRun>>

\* updated_at of the issue with the given number, as this run fetched it
MarkerOf(iss, n) == (CHOOSE x \in {iss[i] : i \in 1..Len(iss)} : x.number = n).updated_at

\* The program is started a second time, on the files the first run left.
\* In between, the updated_at of at most one issue has changed.  lastRun
\* records, for each detail page the first run wrote, the updated_at it saw.
StartAgain ==
    /\ pc \in {"done", "raised", "exit"}
    /\ runNo = 1
    /\ runNo' = 2
    /\ pc' = "main"
    /\ \E changed \in {{}} \cup {{n} : n \in 1..Len(source)} :
         source' = [i \in 1..Len(source) |->
                      IF source[i].number \in changed
                      THEN [source[i] EXCEPT !.updated_at = "m1"]
                      ELSE source[i]]
    /\ lastRun' = [cache |-> [n \in {m \in 1..MaxIssues : ArticlePage(m) \in written}
                               |-> MarkerOf(issues, n)]]
    /\ config' = EmptyDict
    /\ issues' = <<>>
    /\ articles' = <<>>
    /\ base_data' = EmptyDict
    /\ fetched' = 0
    /\ written' = {}
    /\ UNCHANGED <<textVars, configFile, env, files>>

Next ==
    \/ Construct
    \/ ProcessIssues
    \/ GenerateBaseYaml
    \/ GenerateHomePage
    \/ GenerateArticlePages
    \/ CopyStaticResources
    \/ StartAgain

Spec == Init /\ [][Next]_vars

-----------------------------------------------------------------------------
(* The text functions on every body *)

RunIdle ==
    /\ pc = "idle"
    /\ runNo = 0
    /\ configFile = NoConfigFile
    /\ env = DefaultEnv
    /\ source = <<>>
    /\ config = EmptyDict
    /\ issues = <<>>
    /\ articles = <<>>
    /\ base_data = EmptyDict
    /\ fetched = 0
    /\ written = {}
    /\ files = {}
    /\ lastRun = NoLastRun

InitText ==
    /\ content \in Bodies
    /\ call = "none"
    /\ out = NoResult
    /\ RunIdle

NextText ==
    \/ CallExtractSummary
    \/ CallProcessHtmlInline
    \/ CallProcessIssueContent

SpecText == InitText /\ [][NextText]_vars

-----------------------------------------------------------------------------
(* Vocabulary of the properties *)

AfterProcessIssues ==
    pc \in {"raised", "generate_base_yaml", "generate_home_page",
            "generate_article_pages", "copy_static_resources", "done"}

AfterBaseYaml ==
    pc \in {"generate_home_page", "generate_article_pages",
            "copy_static_resources", "done"}

AfterArticlePages == pc \in {"copy_static_resources", "done"}

ArticleNumbers == [k \in 1..Len(articles) |-> articles[k].issue_id]

ArticleSet == {articles[k] : k \in 1..Len(articles)}

\* the detail pages this run has written
RenderedPages == {n \in 1..MaxIssues : ArticlePage(n) \in written}

\* the numbers of the records of iss that are no pull requests, in order
RECURSIVE NonPullRequestNumbers(_)
NonPullRequestNumbers(iss) ==
    IF iss = <<>> THEN <<>>
    ELSE (IF "pull_request" \in DOMAIN Head(iss) THEN <<>> ELSE <<Head(iss).number>>)
         \o NonPullRequestNumbers(Tail(iss))

-----------------------------------------------------------------------------
(* C1 *)

-----------------------------------------------------------------------------
(* C2 *)

\* C2: once process_issues has run, self.articles holds no article for a
\* record that carries the pull_request key and exactly one article for every
\* other record of the fetched list, in input order.
C2_OneArticlePerNonPullRequest ==
    AfterProcessIssues => ArticleNumbers = NonPullRequestNumbers(issues)

-----------------------------------------------------------------------------
(* C3 *)

InSpecials(a) ==
    \E k \in 1..Len(base_data.specials) :
        base_data.specials[k].id = <<"special", a.issue_id>>

InArticleList(a) ==
    \E k \in 1..Len(base_data.articles) : base_data.articles[k].id = a.id

\* the articles that belong to the special set: tagged 'special', or tagged
\* 'top' when special.top is true
Qualifies(a) ==
    \/ InList("special", a.tags)
    \/ /\ InList("top", a.tags)
       /\ "special" \in DOMAIN config
       /\ "top" \in DOMAIN config.special
       /\ config.special.top

\* C3, as claimed: after generate_base_yaml every article is in exactly one of
\* the emitted sets: in the special list or in the ordinary list, never both.
C3_ExactlyOneDisplaySet ==
    AfterBaseYaml =>
        \A a \in ArticleSet : InSpecials(a) # InArticleList(a)

\* C3, amended: after generate_base_yaml every article appears exactly once in
\* the ordinary article list, in input order, and the special list holds
\* exactly the qualifying articles, which are in the ordinary list as well.
C3_AllListedSpecialsToo ==
    AfterBaseYaml =>
        /\ [k \in 1..Len(base_data.articles) |-> base_data.articles[k].id]
             = [k \in 1..Len(articles) |-> articles[k].id]
        /\ \A a \in ArticleSet : InSpecials(a) <=> Qualifies(a)

\* C3, witness: an article that is in the special list and in the ordinary
\* list, next to one that is in the ordinary list alone.
C3_SpecialArticleListedTwice ==
    /\ AfterBaseYaml
    /\ \E a \in ArticleSet : InSpecials(a) /\ InArticleList(a)
    /\ \E a \in ArticleSet : ~InSpecials(a) /\ InArticleList(a)

-----------------------------------------------------------------------------
(* C4 *)

\* what the claim calls the summary: the stripped inner text of the tagged
\* span of the first '!vml-' of the body, read up to the end of its line;
\* empty when that directive holds no tagged span
SummaryOfFirstDirective(s) ==
    LET i == IndexFrom(s, 1, VML)
        line == SubSeq(s, i + Len(VML), LineEnd(s, i + Len(VML)))
    IN  IF i = 0 \/ ~SearchSpan(line).found THEN <<>>
        ELSE Strip(SearchSpan(line).inner)

\* C4: for a body with at least one '!vml-' directive, extract_summary returns
\* the stripped inner text of the tagged span of the first directive; a later
\* directive never contributes.
C4_SummaryFromFirstDirective ==
    (call = "extract_summary" /\ Contains(content, VML)) =>
        out.summary = SummaryOfFirstDirective(content)

-----------------------------------------------------------------------------
(* C5 *)

\* the body has no '!vml-' directive, or its first directive holds no
\* tagged span
NoSummaryIn(s) == SummaryOfFirstDirective(s) = <<>>

\* C5: process_issues never raises on a body without a usable summary
\* directive, be it empty, absent or null: every such record that is no pull
\* request becomes an article whose summary is the fallback (the empty
\* summary), and the records after it are normalized too.
C5_FallbackSummaryNeverRaises ==
    /\ pc # "raised"
    /\ AfterProcessIssues =>
         \A i \in 1..Len(issues) :
            (/\ "pull_request" \notin DOMAIN issues[i]
             /\ \/ "body" \notin DOMAIN issues[i]
                \/ issues[i].body.null
                \/ NoSummaryIn(issues[i].body.text))
            => \E a \in ArticleSet :
                  a.issue_id = issues[i].number /\ a.summary = <<>>

-----------------------------------------------------------------------------
(* C6 *)

\* what the claim calls the substitution: every '!vml-' directive, with an
\* empty payload too, gives way to its payload, the rest of its line
RECURSIVE PayloadsFrom(_, _)
PayloadsFrom(s, i) ==
    IF i > Len(s) THEN <<>>
    ELSE IF HasAt(s, i, VML)
         THEN LET e == LineEnd(s, i + Len(VML))
              IN  SubSeq(s, i + Len(VML), e) \o PayloadsFrom(s, e + 1)
         ELSE <<s[i]>> \o PayloadsFrom(s, i + 1)

\* C6: process_html_inline replaces every '!vml-' directive by its payload, a
\* directive with an empty payload by the empty string, and returns a body
\* without directive unchanged.
C6_EveryDirectiveReplaced ==
    call = "process_html_inline" =>
        /\ out.text = PayloadsFrom(content, 1)
        /\ ~Contains(content, VML) => out.text = content

-----------------------------------------------------------------------------
(* C7 *)

\* positions of the articles whose tags contain tag
Carriers(tag) == {k \in 1..Len(articles) : InList(tag, articles[k].tags)}

\* C7: generate_base_yaml emits exactly one menu item per configured entry, in
\* order; its url is the url of the first article, in input order, whose tags
\* contain the entry's tag, and None when no article carries the tag; a url
\* that is not None is the url of an article.
C7_MenuResolvesToFirstCarrier ==
    AfterBaseYaml =>
        LET menu == Get(config, "floating_menu", <<>>)
            items == base_data.menu_items
        IN  /\ Len(items) = Len(menu)
            /\ \A k \in 1..Len(items) :
                 /\ items[k].tag = Get(menu[k], "tag", "")
                 /\ items[k].url =
                      IF Carriers(items[k].tag) = {} THEN None
                      ELSE articles[Min(Carriers(items[k].tag))].url
                 /\ items[k].url # None =>
                      \E a \in ArticleSet : a.url = items[k].url

\* C7, witness: a menu with one entry whose tag two articles carry and one
\* entry whose tag no article carries.
C7_MenuWithSharedAndUnusedTag ==
    /\ AfterBaseYaml
    /\ \E k \in 1..Len(base_data.menu_items) :
         /\ Cardinality(Carriers(base_data.menu_items[k].tag)) >= 2
         /\ base_data.menu_items[k].url # None
    /\ \E k \in 1..Len(base_data.menu_items) :
         base_data.menu_items[k].url = None

-----------------------------------------------------------------------------
(* C8 *)

\* '#' and six hexadecimal digits, nothing else
WellFormedColor(s) ==
    /\ Len(s) = 7
    /\ s[1] = "#"
    /\ \A i \in 2..7 : s[i] \in HexDigits

\* the configurations the claim names
Misconfigured(file) ==
    /\ file.exists
    /\ \/ Len(Get(file, "floating_menu", <<>>)) > MaxMenu
       \/ Get(Get(file, "theme", EmptyDict), "mode", "dark") \notin {"dark", "light"}
       \/ ~WellFormedColor(Get(Get(file, "theme", EmptyDict), "primary_color", Red))

\* C8: with more than 10 floating-menu entries, an invalid theme mode or a
\* malformed primary color the run ends in the construction of the
\* generator: no issue is ever fetched and no file is written.
C8_MisconfiguredRunStopsEarly ==
    Misconfigured(configFile) =>
        /\ pc \in {"main", "exit"}
        /\ fetched = 0
        /\ written = {}

-----------------------------------------------------------------------------
(* C9 *)

\* entry e of the special list shows article a
Backs(a, e) ==
    /\ "title" \in DOMAIN e
    /\ e.id = <<"special", a.issue_id>>
    /\ e.title = a.title
    /\ e.tags = a.tags
    /\ e.url = a.url

Unbacked == {k \in 1..Len(base_data.specials) :
                ~\E a \in ArticleSet : Backs(a, base_data.specials[k])}

\* C9: the emitted special list has an entry without backing article if and
\* only if no article qualified for the special set and the configuration has
\* a special.view block; the list is then the one entry 'special-text-only'.
\* Every other entry is backed by exactly one article.
C9_OnlyTextOnlyCardIsUnbacked ==
    AfterBaseYaml =>
        LET specials == base_data.specials
            hasView == /\ "special" \in DOMAIN config
                       /\ "view" \in DOMAIN config.special
        IN  /\ Unbacked # {} <=> ((\A a \in ArticleSet : ~Qualifies(a)) /\ hasView)
            /\ Unbacked # {} =>
                 /\ Len(specials) = 1
                 /\ specials[1].id = <<"special-text-only">>
            /\ \A k \in (1..Len(specials)) \ Unbacked :
                 Cardinality({j \in 1..Len(articles) : Backs(articles[j], specials[k])}) = 1

\* C9, witness: articles exist, none of them qualified, and the special list
\* is the text-only card.
C9_TextOnlyCardEmitted ==
    /\ AfterBaseYaml
    /\ articles # <<>>
    /\ Unbacked # {}

-----------------------------------------------------------------------------
(* C10 *)

\* C10: with template/home.html missing run() still writes the aggregate data
\* file and every detail page, with template/article.html missing it still
\* writes the aggregate data file and the home page, and in neither case does
\* run() abort.
C10_MissingTemplateOnlySkipsItsOutput ==
    /\ (~env.home_template \/ ~env.article_template) => pc # "raised"
    /\ (pc = "done" /\ ~env.home_template /\ env.article_template) =>
         /\ BaseYaml \in written
         /\ RenderedPages = {a.issue_id : a \in ArticleSet}
    /\ (pc = "done" /\ env.home_template /\ ~env.article_template) =>
         /\ BaseYaml \in written
         /\ HomePage \in written

-----------------------------------------------------------------------------
(* One generator whose process_issues is called more than once *)

MaxCalls == 3      \* process_issues is called at most MaxCalls times

\* a generator has been constructed from the default configuration
InitGenerator ==
    /\ TextIdle
    /\ pc = "generator"
    /\ runNo = 1
    /\ configFile = DefaultConfig
    /\ env = DefaultEnv
    /\ source \in Sources
    /\ config = DefaultConfig
    /\ issues = <<>>
    /\ articles = <<>>
    /\ base_data = EmptyDict
    /\ fetched = 0
    /\ written = {}
    /\ files = {}
    /\ lastRun = NoLastRun

\* process_issues, called on the generator as it stands: self.issues is
\* replaced by the fetched list, self.articles is appended to
CallProcessIssues ==
    /\ pc = "generator"
    /\ fetched < MaxCalls
    /\ LET fetchedIssues == fetch_github_issues(source)
           r == ProcessFrom(fetchedIssues, 1,
                            [articles |-> articles, written |-> {}, raised |-> FALSE])
       IN  /\ issues' = fetchedIssues
           /\ articles' = r.articles
           /\ written' = written \cup r.written
           /\ files' = files \cup r.written
           /\ pc' = IF r.raised THEN "raised" ELSE "generator"
    /\ fetched' = fetched + 1
    /\ UNCHANGED <<textVars, runNo, configFile, env, source, config, base_data,
                   lastRun>>

NextGenerator == CallProcessIssues

SpecGenerator == InitGenerator /\ [][NextGenerator]_vars

-----------------------------------------------------------------------------
(* C11 *)

\* C11: in every state of a generator, after any number of process_issues
\* calls on lists of distinct issue numbers, the articles of self.articles
\* have pairwise distinct ids, each the 'article-<number>' of its source
\* issue, so that no two articles built from different issues share an id.
C11_ArticleIdsPairwiseDistinct ==
    /\ \A j, k \in 1..Len(articles) :
         j # k => articles[j].id # articles[k].id
    /\ \A k \in 1..Len(articles) :
         /\ articles[k].id = <<"article", articles[k].issue_id>>
         /\ \E i \in 1..Len(source) :
              /\ source[i].number = articles[k].issue_id
              /\ source[i].title = articles[k].title

-----------------------------------------------------------------------------
(* C12 *)

\* the first '!vml-' of the body is directly followed by a tagged span:
\* a summary directive '!vml-<span ...>text</span>'
FirstDirectiveIsSummary(s) ==
    /\ Contains(s, VML)
    /\ SummaryLineAt(s, IndexFrom(s, 1, VML)).found

\* C12: for a body whose first directive is a summary directive, the content
\* returned by process_issue_content is the body without that summary line,
\* with the payload of every other directive in place.
C12_SummaryLineRemoved ==
    (call = "process_issue_content" /\ FirstDirectiveIsSummary(content)) =>
        out.text = process_html_inline(RemoveSummaryLine(content))

====
